---- MODULE Spec2Model ----
(***************************************************************************)
(* Criteria Weight Balancer (pct_lock).                                    *)
(*                                                                         *)
(*   engine.py  compute_weighting_state : the pure reconciliation function *)
(*   main.py    the Streamlit shell that keeps scores / locked /           *)
(*              locked_pct / weight_i in st.session_state and calls the    *)
(*              engine on every rerun                                      *)
(*                                                                         *)
(* Python floats are modelled as exact rationals <<num, den>> in lowest    *)
(* terms (den > 0); float("nan") is the pair <<0, 0>> and a raised         *)
(* ZeroDivisionError is the pair <<1, 0>>.  "Within tolerance" in the      *)
(* prose therefore reads as exact equality here.                           *)
(***************************************************************************)
EXTENDS Integers, Sequences, FiniteSets, TLC

VARIABLES scores, locked, locked_pct, slider_weights, out, pc, events, warning

vars == <<scores, locked, locked_pct, slider_weights, out, pc, events, warning>>

(***************************************************************************)
(* Bounds of the model.                                                    *)
(***************************************************************************)
\* longest input sequences handed to compute_weighting_state
MaxRows == 3
\* number of criteria rows of the shell session (st.number_input "n")
ShellRows == 3
\* number of user events (slider drags, button clicks) followed in a session
MaxEvents == 4

(***************************************************************************)
(* float arithmetic                                                        *)
(***************************************************************************)
NaN == <<0, 0>>
ZeroDivisionError == <<1, 0>>

Abs(x) == IF x < 0 THEN -x ELSE x

RECURSIVE GCD(_, _)
GCD(a, b) == IF b = 0 THEN a ELSE GCD(b, a % b)

\* the float n/d, d > 0
Rat(n, d) ==
    IF d = 1 THEN <<n, 1>>
    ELSE LET g == GCD(Abs(n), d) IN <<n \div g, d \div g>>

Flt(n) == <<n, 1>>

isfinite(x) == x[2] # 0

\* the result of an operation one of whose operands is not finite
NotFinite(a, b) ==
    IF a = ZeroDivisionError \/ b = ZeroDivisionError THEN ZeroDivisionError
    ELSE NaN

\* the products are taken after cancelling common factors, so that the
\* intermediate integers stay as small as the result allows
FAdd(a, b) ==
    IF a[2] = 0 \/ b[2] = 0 THEN NotFinite(a, b)
    ELSE IF a[2] = b[2] THEN Rat(a[1] + b[1], a[2])
    ELSE LET g == GCD(a[2], b[2])
         IN  Rat(a[1] * (b[2] \div g) + b[1] * (a[2] \div g), (a[2] \div g) * b[2])

FNeg(a) == IF isfinite(a) THEN <<-a[1], a[2]>> ELSE a

FSub(a, b) == FAdd(a, FNeg(b))

FMul(a, b) ==
    IF a[2] = 0 \/ b[2] = 0 THEN NotFinite(a, b)
    ELSE IF a[2] = 1 /\ b[2] = 1 THEN <<a[1] * b[1], 1>>
    ELSE LET g1 == GCD(Abs(a[1]), b[2])
             g2 == GCD(Abs(b[1]), a[2])
         IN  <<(a[1] \div g1) * (b[1] \div g2), (a[2] \div g2) * (b[2] \div g1)>>

\* a / b : raises on a zero divisor, nan propagates
FDiv(a, b) ==
    IF a[2] = 0 \/ b[2] = 0 THEN NotFinite(a, b)
    ELSE IF b[1] = 0 THEN ZeroDivisionError
    ELSE IF b[1] > 0 THEN FMul(a, <<b[2], b[1]>>)
    ELSE FMul(a, <<-b[2], -b[1]>>)

\* sign of n1/d1 - n2/d2 for d1, d2 > 0, by comparing the integer parts and
\* then the reciprocals of the fractional parts
RECURSIVE Cmp(_, _, _, _)
Cmp(n1, d1, n2, d2) ==
    IF d1 = d2 THEN (IF n1 < n2 THEN -1 ELSE IF n1 > n2 THEN 1 ELSE 0)
    ELSE LET q1 == n1 \div d1
             q2 == n2 \div d2
             r1 == n1 % d1
             r2 == n2 % d2
         IN  IF q1 < q2 THEN -1
             ELSE IF q1 > q2 THEN 1
             ELSE IF r1 = 0 /\ r2 = 0 THEN 0
             ELSE IF r1 = 0 THEN -1
             ELSE IF r2 = 0 THEN 1
             ELSE Cmp(d2, r2, d1, r1)

\* comparisons are False as soon as one side is nan
FLt(a, b) == isfinite(a) /\ isfinite(b) /\ Cmp(a[1], a[2], b[1], b[2]) < 0
FLe(a, b) == isfinite(a) /\ isfinite(b) /\ Cmp(a[1], a[2], b[1], b[2]) <= 0
FGt(a, b) == FLt(b, a)
FGe(a, b) == FLe(b, a)

\* Python's two-argument min / max: the first argument wins unless the
\* second is strictly smaller / larger
PyMin(a, b) == IF FLt(b, a) THEN b ELSE a
PyMax(a, b) == IF FGt(b, a) THEN b ELSE a

\* sum(xs) over a sequence, left to right, starting from 0
RECURSIVE FSumUpTo(_, _)
FSumUpTo(xs, k) == IF k = 0 THEN Flt(0) ELSE FAdd(FSumUpTo(xs, k - 1), xs[k])

FSum(xs) == FSumUpTo(xs, Len(xs))

(***************************************************************************)
(* engine.py : compute_weighting_state(scores, locked, locked_pct,         *)
(*                                     slider_weights)                     *)
(***************************************************************************)
\* max(0.0, min(10.0, x))
Clamp(x) == PyMax(Flt(0), PyMin(Flt(10), x))

\* sum(locked_pct[i] for i in range(n) if locked[i])
sum_locked_pct(lk, lp) ==
    FSum([i \in 1..Len(lk) |-> IF lk[i] THEN lp[i] ELSE Flt(0)])

\* the loop accumulating scores[i] * clamp(slider_weights[i]) over unlocked rows
unlocked_weighted_sum(sc, lk, sw) ==
    FSum([i \in 1..Len(sc) |-> IF lk[i] THEN Flt(0) ELSE FMul(sc[i], Clamp(sw[i]))])

\* denom = 1.0 - sum_locked_pct
denom(lk, lp) == FSub(Flt(1), sum_locked_pct(lk, lp))

\* mutant: the unlocked sum is taken as the total, not divided by denom
SolveT_NoDenominator(usum, d) ==
    IF FLe(d, Flt(0)) THEN NaN ELSE usum

\* lines 56-60: T = nan if denom <= 0 else unlocked_weighted_sum / denom
SolveT(usum, d) ==
    IF FLe(d, Flt(0)) THEN NaN ELSE FDiv(usum, d)

SolvedT(sc, lk, lp, sw) ==
    SolveT(unlocked_weighted_sum(sc, lk, sw), denom(lk, lp))

\* lines 67-76: eff_w of a locked row before the clamp of line 78
RawLockedWeight(s, target, T) ==
    IF FLe(s, Flt(0)) THEN Flt(0)
    ELSE IF ~isfinite(T) THEN (IF T = ZeroDivisionError THEN T ELSE Flt(0))
    ELSE FDiv(FMul(target, T), s)

\* mutant: the clamp of line 78 is missing
eff_w_Unclamped(sc, lk, lp, sw, T, i) ==
    IF lk[i] THEN RawLockedWeight(sc[i], lp[i], T)
    ELSE Clamp(sw[i])

\* lines 66-80: eff_w of row i
eff_w(sc, lk, lp, sw, T, i) ==
    IF lk[i] THEN Clamp(RawLockedWeight(sc[i], lp[i], T))
    ELSE Clamp(sw[i])

\* eff_weights after the loop of lines 65-82 (\o <<>> builds the list once)
eff_weights(sc, lk, lp, sw, T) ==
    [i \in 1..Len(sc) |-> eff_w(sc, lk, lp, sw, T, i)] \o <<>>

\* line 82: weighted_scores[i] = scores[i] * eff_w
weighted_scores(sc, eff) ==
    [i \in 1..Len(sc) |-> FMul(sc[i], eff[i])] \o <<>>

\* mutant: the sum stops one row short
total_weighted_SkipLast(ws) == FSumUpTo(ws, Len(ws) - 1)

\* line 84: total_weighted = sum(weighted_scores)
total_weighted(ws) == FSum(ws)

\* mutant: percentages (0..100) instead of fractions
pct_w_total_Percent(ws, total) ==
    IF FLe(total, Flt(0)) THEN [i \in 1..Len(ws) |-> Flt(0)]
    ELSE [i \in 1..Len(ws) |-> FDiv(FMul(ws[i], Flt(100)), total)]

\* mutant: the guard of line 85 lets a total of exactly 0 through
pct_w_total_StrictGuard(ws, total) ==
    IF FLt(total, Flt(0)) THEN [i \in 1..Len(ws) |-> Flt(0)]
    ELSE [i \in 1..Len(ws) |-> FDiv(ws[i], total)]

\* lines 85-88: pct_w_total
pct_w_total(ws, total) ==
    IF FLe(total, Flt(0)) THEN [i \in 1..Len(ws) |-> Flt(0)]
    ELSE [i \in 1..Len(ws) |-> FDiv(ws[i], total)]

\* line 90: the returned tuple
Returned(eff, ws, total) ==
    [total_weighted  |-> total,
     eff_weights     |-> eff,
     weighted_scores |-> ws,
     pct_w_total     |-> pct_w_total(ws, total) \o <<>>]

Totalled(eff, ws) == Returned(eff, ws, total_weighted(ws))

Weighted(sc, eff) == Totalled(eff, weighted_scores(sc, eff))

compute_weighting_state(sc, lk, lp, sw) ==
    Weighted(sc, eff_weights(sc, lk, lp, sw, SolvedT(sc, lk, lp, sw)))

\* the call ended in an exception instead of returning
Raised(o) ==
    \/ o.total_weighted = ZeroDivisionError
    \/ \E i \in 1..Len(o.eff_weights) :
          \/ o.eff_weights[i] = ZeroDivisionError
          \/ o.weighted_scores[i] = ZeroDivisionError
          \/ o.pct_w_total[i] = ZeroDivisionError

(***************************************************************************)
(* Inputs of the engine harness.  A row is (score, locked, locked_pct,     *)
(* slider weight); the values cover negative / zero / positive scores,     *)
(* shares that add up to less than, exactly and more than 1, and slider    *)
(* values below, inside and above [0, 10].                                 *)
(***************************************************************************)
ScoreValues == {Flt(-50), Flt(0), Flt(100)}
ShareValues == {Flt(0), Rat(1, 4), Rat(1, 2), Rat(3, 5)}
SliderValues == {Flt(-1), Flt(4), Flt(15)}

\* a locked row carries the slider default, an unlocked row the share 0.0
\* that main.py keeps for it
RowInputs ==
    [score : ScoreValues, locked : {TRUE}, locked_pct : ShareValues,
     slider : {Flt(1)}]
    \cup
    [score : ScoreValues, locked : {FALSE}, locked_pct : {Flt(0)},
     slider : SliderValues]

NoOutput ==
    [total_weighted |-> Flt(0), eff_weights |-> <<>>,
     weighted_scores |-> <<>>, pct_w_total |-> <<>>]

(***************************************************************************)
(* Engine harness: one call of compute_weighting_state on arbitrary        *)
(* equal-length inputs.                                                    *)
(***************************************************************************)
EngineInit ==
    /\ \E n \in 1..MaxRows : \E rows \in [1..n -> RowInputs] :
          /\ scores = [i \in 1..n |-> rows[i].score]
          /\ locked = [i \in 1..n |-> rows[i].locked]
          /\ locked_pct = [i \in 1..n |-> rows[i].locked_pct]
          /\ slider_weights = [i \in 1..n |-> rows[i].slider]
    /\ out = NoOutput
    /\ pc = "call"
    /\ events = 0
    /\ warning = "none"

Call ==
    /\ pc = "call"
    /\ out' = compute_weighting_state(scores, locked, locked_pct, slider_weights)
    /\ pc' = IF Raised(out') THEN "raised" ELSE "returned"
    /\ UNCHANGED <<scores, locked, locked_pct, slider_weights, events, warning>>

EngineNext == Call

EngineSpec == EngineInit /\ [][EngineNext]_vars

(***************************************************************************)
(* main.py : the Streamlit shell.  scores, locked and locked_pct are the   *)
(* st.session_state lists, slider_weights[i] is st.session_state           *)
(* "weight_i" (1.0 when the key is absent), events counts the user events  *)
(* handled so far and warning is the st.warning the last event produced.   *)
(* Every event ends in a rerun of main().                                  *)
(***************************************************************************)
Rows == 1..ShellRows

\* random.randint(25, 200) of init_state and random.randint(0, 200) of
\* "Regenerate Scores": the smallest value and one larger value of each range
InitScoreValues == {Flt(25), Flt(50)}
RegenScoreValues == {Flt(0), Flt(50)}
\* st.slider(min_value=0.0, max_value=10.0, step=0.1)
ShellSliderValues == {Flt(0), Flt(1), Flt(10)}

\* the threshold of the lock guard, 0.999999
LockThreshold == Rat(999999, 1000000)

\* lines 219-226: every rerun of main() recomputes the displayed state from
\* the session state; nothing computed is kept between reruns
Rerun(sc, lk, lp, sw) == compute_weighting_state(sc, lk, lp, sw)

\* what the page shows in the current session state
Shown == Rerun(scores, locked, locked_pct, slider_weights)

\* prospective_total of lines 299-301
prospective_total(lk, lp, current_pct) == FAdd(sum_locked_pct(lk, lp), current_pct)

\* mutant: only a prospective total above 100% is refused
LockRejected_Over100(lk, lp, current_pct) ==
    FGt(prospective_total(lk, lp, current_pct), Flt(1))

\* the guard of line 302
LockRejected(lk, lp, current_pct) ==
    FGe(prospective_total(lk, lp, current_pct), LockThreshold)

\* line 293
CurrentPct(pct, i) == IF isfinite(pct[i]) THEN pct[i] ELSE Flt(0)

ShellInit ==
    /\ scores \in [Rows -> InitScoreValues]
    /\ locked = [i \in Rows |-> FALSE]
    /\ locked_pct = [i \in Rows |-> Flt(0)]
    /\ slider_weights = [i \in Rows |-> Flt(1)]
    /\ out = NoOutput
    /\ pc = "shell"
    /\ events = 0
    /\ warning = "none"

\* the user drags the slider of an unlocked row (lines 268-278)
SliderChange(i, v) ==
    /\ pc = "shell" /\ events < MaxEvents
    /\ ~locked[i]
    /\ slider_weights' = [slider_weights EXCEPT ![i] = v]
    /\ events' = events + 1
    /\ warning' = "none"
    /\ UNCHANGED <<scores, locked, locked_pct, out, pc>>

\* lines 305-307 with the share captured from the page
StoreLock(i, pct) ==
    /\ locked' = [locked EXCEPT ![i] = TRUE]
    /\ locked_pct' = [locked_pct EXCEPT ![i] = CurrentPct(pct, i)]

\* which st.warning, if any, the lock attempt on row i shows (lines 293-304)
LockWarning(sc, lk, lp, pct, i) ==
    IF sc[i] = Flt(0) /\ FGt(CurrentPct(pct, i), Flt(0)) THEN "zero_score"
    ELSE IF LockRejected(lk, lp, CurrentPct(pct, i)) THEN "total_locked"
    ELSE "none"

LockAttempt(i, pct) ==
    /\ warning' = LockWarning(scores, locked, locked_pct, pct, i)
    /\ IF warning' # "none"
       THEN UNCHANGED <<locked, locked_pct>>
       ELSE StoreLock(i, pct)

\* the padlock of an unlocked row is pressed (lines 286-308, 316-320)
LockClick(i) ==
    /\ pc = "shell" /\ events < MaxEvents
    /\ ~locked[i]
    /\ LockAttempt(i, Shown.pct_w_total)
    /\ events' = events + 1
    /\ UNCHANGED <<scores, slider_weights, out, pc>>

\* the padlock of a locked row is pressed (lines 309-313); the slider comes
\* back with the value of st.session_state "weight_i", which the framework
\* may have kept or dropped (then 1.0, line 219) while the row was locked
UnlockClick(i) ==
    /\ pc = "shell" /\ events < MaxEvents
    /\ locked[i]
    /\ locked' = [locked EXCEPT ![i] = FALSE]
    /\ locked_pct' = [locked_pct EXCEPT ![i] = Flt(0)]
    /\ \E w \in {slider_weights[i], Flt(1)} :
          slider_weights' = [slider_weights EXCEPT ![i] = w]
    /\ events' = events + 1
    /\ warning' = "none"
    /\ UNCHANGED <<scores, out, pc>>

\* "Reset Locks" (lines 203-209)
ResetLocks ==
    /\ pc = "shell" /\ events < MaxEvents
    /\ locked' = [i \in Rows |-> FALSE]
    /\ locked_pct' = [i \in Rows |-> Flt(0)]
    /\ events' = events + 1
    /\ warning' = "none"
    /\ UNCHANGED <<scores, slider_weights, out, pc>>

\* "Regenerate Scores" (lines 188-201)
RegenerateScores ==
    /\ pc = "shell" /\ events < MaxEvents
    /\ scores' \in [Rows -> RegenScoreValues]
    /\ locked' = [i \in Rows |-> FALSE]
    /\ locked_pct' = [i \in Rows |-> Flt(0)]
    /\ slider_weights' = [i \in Rows |-> Flt(1)]
    /\ events' = events + 1
    /\ warning' = "none"
    /\ UNCHANGED <<out, pc>>

ShellNext ==
    \/ \E i \in Rows : \E v \in ShellSliderValues : SliderChange(i, v)
    \/ \E i \in Rows : LockClick(i)
    \/ \E i \in Rows : UnlockClick(i)
    \/ ResetLocks
    \/ RegenerateScores

ShellSpec == ShellInit /\ [][ShellNext]_vars

(***************************************************************************)
(* Properties of compute_weighting_state (checked under EngineSpec).       *)
(***************************************************************************)
N == Len(scores)
EngineRows == 1..N

\* the call has ended (returned or raised)
Called == pc \in {"returned", "raised"}

\* L, U and the back-solved T of the current inputs
L == sum_locked_pct(locked, locked_pct)
U == unlocked_weighted_sum(scores, locked, slider_weights)
BackSolvedT == SolvedT(scores, locked, locked_pct, slider_weights)

\* the clamp of line 78 leaves the weight solved for locked row j as it is
Unsaturated(j) ==
    LET raw == RawLockedWeight(scores[j], locked_pct[j], BackSolvedT)
    IN  FGe(raw, Flt(0)) /\ FLe(raw, Flt(10))

NoSaturation == \A j \in EngineRows : locked[j] => Unsaturated(j)

\* Z: the locked shares held by locked rows whose score is <= 0
UnrealisableShare ==
    FSum([j \in EngineRows |->
            IF locked[j] /\ FLe(scores[j], Flt(0)) THEN locked_pct[j] ELSE Flt(0)])

\* C1: whenever the locked shares sum to 1 or more, the returned grand total
\* is not finite (NaN) and every locked row has effective weight 0.
C1_InfeasibleTotalIsNaN ==
    (Called /\ FGe(L, Flt(1))) =>
        /\ pc = "returned"
        /\ ~isfinite(out.total_weighted)
        /\ \A i \in EngineRows : locked[i] => out.eff_weights[i] = Flt(0)

WithoutShare(i) ==
    compute_weighting_state(scores, locked, [locked_pct EXCEPT ![i] = Flt(0)],
                            slider_weights)

\* C3: a locked row with score 0 and a nonzero locked share gets effective
\* weight 0, and every other row has the effective weight and weighted score
\* it would have without that share (both locked sums below 1).
C3_ZeroScoreLockIsolated ==
    (pc = "returned" /\ FLt(L, Flt(1))) =>
        \A i \in EngineRows :
            (locked[i] /\ scores[i] = Flt(0) /\ FGt(locked_pct[i], Flt(0))) =>
                /\ out.eff_weights[i] = Flt(0)
                /\ \A j \in EngineRows \ {i} :
                      /\ out.eff_weights[j] = WithoutShare(i).eff_weights[j]
                      /\ out.weighted_scores[j] = WithoutShare(i).weighted_scores[j]

\* C4: whenever the returned grand total is finite and positive, the returned
\* shares sum to 1 (for every input, negative scores included).
C4_Conservation ==
    (pc = "returned" /\ isfinite(out.total_weighted)
                     /\ FGt(out.total_weighted, Flt(0)))
        => FSum(out.pct_w_total) = Flt(1)

\* a positive total shared between a locked row and the other rows
C4_Witness ==
    /\ pc = "returned"
    /\ FGt(out.total_weighted, Flt(0))
    /\ \E i \in EngineRows :
          /\ locked[i]
          /\ FGt(out.pct_w_total[i], Flt(0))
          /\ FLt(out.pct_w_total[i], Flt(1))

\* clamp(x, 0, 10) written out
Clamped(x) == IF FLt(x, Flt(0)) THEN Flt(0)
              ELSE IF FGt(x, Flt(10)) THEN Flt(10) ELSE x

\* C5: every returned effective weight lies in [0, 10]; an unlocked row's is
\* its free weight clamped to [0, 10], a locked row's is the solved weight
\* clamped to [0, 10].
C5_WeightsClamped ==
    pc = "returned" =>
        \A i \in EngineRows :
            /\ FGe(out.eff_weights[i], Flt(0))
            /\ FLe(out.eff_weights[i], Flt(10))
            /\ ~locked[i] => out.eff_weights[i] = Clamped(slider_weights[i])
            /\ locked[i] => out.eff_weights[i] =
                   Clamped(RawLockedWeight(scores[i], locked_pct[i], BackSolvedT))

\* a free weight of 15 shown as 10 next to a locked row whose solved weight
\* exceeds 10
C5_Witness ==
    /\ pc = "returned"
    /\ \E i \in EngineRows :
          /\ ~locked[i] /\ slider_weights[i] = Flt(15)
          /\ out.eff_weights[i] = Flt(10)
    /\ \E j \in EngineRows :
          /\ locked[j]
          /\ FGt(RawLockedWeight(scores[j], locked_pct[j], BackSolvedT), Flt(10))
          /\ out.eff_weights[j] = Flt(10)

\* C6: the call returns for every input, and whenever the final total is
\* <= 0 every returned share is 0.
C6_DegenerateTotal ==
    Called =>
        /\ pc = "returned"
        /\ FLe(out.total_weighted, Flt(0)) =>
               \A i \in EngineRows : out.pct_w_total[i] = Flt(0)

\* a total of exactly 0 made of a negative and a positive weighted score
C6_Witness ==
    /\ pc = "returned"
    /\ out.total_weighted = Flt(0)
    /\ \E i \in EngineRows : FLt(out.weighted_scores[i], Flt(0))
    /\ \A i \in EngineRows : out.pct_w_total[i] = Flt(0)

ShownNext == Rerun(scores', locked', locked_pct', slider_weights')

\* a step in which only sliders moved
SliderStep ==
    /\ slider_weights' # slider_weights
    /\ locked' = locked
    /\ scores' = scores

\* C8: after slider changes on the unlocked rows, the page shows every locked
\* row with its stored share.
C8_LockedSharePreserved ==
    [][SliderStep =>
         \A i \in Rows : locked'[i] => ShownNext.pct_w_total[i] = locked_pct'[i]]_vars

\* C9: the locked shares always sum to less than the 0.999999 threshold (so
\* to less than 1), and a lock attempt refused for reaching the threshold
\* leaves locked and locked_pct unchanged.
C9_LockedTotalBelowOne ==
    /\ [](FLt(sum_locked_pct(locked, locked_pct), LockThreshold))
    /\ [][warning' = "total_locked"
            => locked' = locked /\ locked_pct' = locked_pct]_vars

\* a lock attempt was refused while another row holds a positive share
C9_Witness ==
    /\ warning = "total_locked"
    /\ \E j \in Rows : locked[j] /\ FGt(locked_pct[j], Flt(0))
    /\ \E i \in Rows : ~locked[i]

\* C10: an accepted lock click stores the share the page showed for that row
\* and leaves the share shown for every row as it was.
C10_LockPreservesShares ==
    [][\A i \in Rows :
          (~locked[i] /\ locked'[i]) =>
              /\ locked_pct'[i] = Shown.pct_w_total[i]
              /\ ShownNext.pct_w_total = Shown.pct_w_total]_vars

====
